---- MODULE Spec2Model ----
(***************************************************************************)
(* Define-use chains of the MoarVM specializer (src/src/moarvm.c, the      *)
(* MVM_spesh_usages_* functions).  A value's MVMSpeshFacts holds the head  *)
(* of a singly linked chain of MVMSpeshUseChainEntry nodes allocated from  *)
(* the graph's arena, two flags and the writer.  The module models the     *)
(* heap of entries, the facts table, the instruction stream the checker    *)
(* walks, and one action per function.                                     *)
(***************************************************************************)
EXTENDS Integers, Sequences, FiniteSets, TLC

\* Number of MVMSpeshUseChainEntry nodes the arena hands out in one run of
\* Spec, and in one run of SpecChain.
MaxEntries == 2
MaxChainEntries == 3
MaxStepEntries == 2
MaxOrderEntries == 3
MaxByRegEntries == 2
MaxWorkerEntries == 3

\* The NULL pointer.
NULL == 0

\* Instruction pointers (MVMSpeshIns *) that occur in the graphs below.
Ins == {1, 2}

\* Basic block pointers (MVMSpeshBB *).
BBs == {1, 2}

\* An operand naming an SSA value: register orig, version i.
Operand(o, n) == [orig |-> o, i |-> n]

V1 == Operand(0, 1)
V2 == Operand(1, 0)

\* The SSA values that have an entry in g->facts.
Values == {V1, V2}

\* The opcode of a PHI instruction.
MVM_SSA_PHI == "PHI"

\* operand descriptor & MVM_operand_rw_mask
MVM_operand_read_reg == "read_reg"
MVM_operand_write_reg == "write_reg"
MVM_operand_read_lex == "read_lex"
MVM_operand_literal == "literal"

\* No fatal error raised.
NoOops == [fmt |-> "none"]

VARIABLES g, facts, arena, oops, last, regCalls, unregOK, run, workers

vars == <<g, facts, arena, oops, last, regCalls, unregOK, run, workers>>

-----------------------------------------------------------------------------
\* Instruction streams.  info is the opcode descriptor (MVMOpInfo), operands
\* the operand slots, next the following instruction of the block.

InsRec(opcode, name, descr, ops, nxt) ==
    [info |-> [opcode |-> opcode, name |-> name,
               num_operands |-> Len(descr), operands |-> descr],
     operands |-> ops, next |-> nxt]

BBRec(idx, first, lnext) ==
    [idx |-> idx, first_ins |-> first, linear_next |-> lnext]

\* const writes V1; add reads V1 in two slots and writes V2.  One block.
GraphScenario ==
    [entry |-> 1,
     bbs |-> (1 :> BBRec(0, 1, NULL) @@ 2 :> BBRec(1, NULL, NULL)),
     ins |-> (1 :> InsRec("const", "const_i64",
                          <<MVM_operand_write_reg>>, <<V1>>, 2)
           @@ 2 :> InsRec("add", "add_i",
                          <<MVM_operand_write_reg, MVM_operand_read_reg,
                            MVM_operand_read_reg>>, <<V2, V1, V1>>, NULL)),
     writer |-> (V1 :> 1 @@ V2 :> 2)]

\* Two blocks; the second starts with a PHI that merges V1 twice into V2.
\* The descriptor of a PHI carries no read/write bits.
GraphPhi ==
    [entry |-> 1,
     bbs |-> (1 :> BBRec(0, 1, 2) @@ 2 :> BBRec(1, 2, NULL)),
     ins |-> (1 :> InsRec("getlex", "getlex",
                          <<MVM_operand_write_reg, MVM_operand_read_lex>>,
                          <<V1, V2>>, NULL)
           @@ 2 :> InsRec(MVM_SSA_PHI, "PHI",
                          <<MVM_operand_literal, MVM_operand_literal,
                            MVM_operand_literal>>, <<V2, V1, V1>>, NULL)),
     writer |-> (V1 :> 1 @@ V2 :> 2)]

\* Both instructions write V1; the second also reads V2, which has no writer.
GraphTwoWriters ==
    [entry |-> 1,
     bbs |-> (1 :> BBRec(0, 1, 2) @@ 2 :> BBRec(1, 2, NULL)),
     ins |-> (1 :> InsRec("set", "set",
                          <<MVM_operand_write_reg, MVM_operand_read_reg>>,
                          <<V1, V2>>, NULL)
           @@ 2 :> InsRec("set", "set",
                          <<MVM_operand_write_reg, MVM_operand_read_reg>>,
                          <<V1, V2>>, NULL)),
     writer |-> (V1 :> 1 @@ V2 :> NULL)]

\* The second block is not linked from the entry block.
GraphUnlinked ==
    [entry |-> 1,
     bbs |-> (1 :> BBRec(0, 1, NULL) @@ 2 :> BBRec(1, 2, NULL)),
     ins |-> (1 :> InsRec("const", "const_i64",
                          <<MVM_operand_write_reg>>, <<V1>>, NULL)
           @@ 2 :> InsRec("set", "set",
                          <<MVM_operand_write_reg, MVM_operand_read_reg>>,
                          <<V2, V1>>, NULL)),
     writer |-> (V1 :> 1 @@ V2 :> NULL)]

\* The writer of V1 was never recorded.
GraphUnsetWriter ==
    [entry |-> 1,
     bbs |-> (1 :> BBRec(0, 1, NULL) @@ 2 :> BBRec(1, NULL, NULL)),
     ins |-> (1 :> InsRec("set", "set",
                          <<MVM_operand_write_reg, MVM_operand_read_reg>>,
                          <<V2, V1>>, 2)
           @@ 2 :> InsRec("const", "const_i64",
                          <<MVM_operand_write_reg>>, <<V1>>, NULL)),
     writer |-> (V1 :> NULL @@ V2 :> 1)]

\* The graphs a run may start from, each with the writers that graph
\* construction recorded in the facts table.
Graphs ==
    {GraphScenario, GraphPhi, GraphTwoWriters, GraphUnlinked, GraphUnsetWriter}

-----------------------------------------------------------------------------
\* Helpers on the heap of chain entries.

\* MVM_spesh_get_facts: g->facts[orig][i].
MVM_spesh_get_facts(f, used) == f[Operand(used.orig, used.i)]

\* MVM_spesh_alloc: the next free node of the arena.
MVM_spesh_alloc(ar) == Len(ar) + 1

\* The entries met when following next from cur, in order.
RECURSIVE Chain(_, _)
Chain(ar, cur) ==
    IF cur = NULL THEN <<>> ELSE <<cur>> \o Chain(ar, ar[cur].next)

\* The chain of value v.
ChainOf(f, ar, v) == Chain(ar, f[v].usage.users)

\* The users of a sequence of entries.
UsersOf(ar, ch) == [k \in 1..Len(ch) |-> ar[ch[k]].user]

\* How many entries of the sequence have user by.
CountUser(ar, ch, by) == Cardinality({k \in 1..Len(ch) : ar[ch[k]].user = by})

\* The subsequence of entries whose user is not by.
OthersOf(ar, ch, by) == SelectSeq(ch, LAMBDA e : ar[e].user # by)

-----------------------------------------------------------------------------
\* MVM_spesh_usages_add

\* MVM_spesh_usages_add that writes a fresh usage record with the new head.
usages_add_reinit(f, ar, v, by) ==
    [facts |-> [f EXCEPT ![v].usage = [users |-> Len(ar) + 1,
                                       deopt_required |-> 0,
                                       handler_required |-> 0]],
     arena |-> Append(ar, [user |-> by, next |-> f[v].usage.users]),
     oops |-> NoOops]

\* MVM_spesh_usages_add that skips an instruction the chain already holds.
usages_add_dedup(f, ar, v, by) ==
    IF CountUser(ar, ChainOf(f, ar, v), by) > 0
    THEN [facts |-> f, arena |-> ar, oops |-> NoOops]
    ELSE [facts |-> [f EXCEPT ![v].usage.users = Len(ar) + 1],
          arena |-> Append(ar, [user |-> by, next |-> f[v].usage.users]),
          oops |-> NoOops]

\* MVM_spesh_usages_add that sets the next of the new entry to the entry
\* itself.
usages_add_self_next(f, ar, v, by) ==
    LET entry == MVM_spesh_alloc(ar)
    IN  [facts |-> [f EXCEPT ![v].usage.users = entry],
         arena |-> Append(ar, [user |-> by, next |-> entry]),
         oops |-> NoOops]

\* MVM_spesh_usages_add that links the new entry behind the last entry of
\* the chain.
usages_add_tail(f, ar, v, by) ==
    LET entry == MVM_spesh_alloc(ar)
        ch == Chain(ar, f[v].usage.users)
        grown == Append(ar, [user |-> by, next |-> NULL])
    IN  IF ch = <<>>
        THEN [facts |-> [f EXCEPT ![v].usage.users = entry],
              arena |-> grown, oops |-> NoOops]
        ELSE [facts |-> f,
              arena |-> [grown EXCEPT ![ch[Len(ch)]].next = entry],
              oops |-> NoOops]

usages_add(f, ar, v, by) ==
    LET entry == MVM_spesh_alloc(ar)
    IN  [facts |-> [f EXCEPT ![v].usage.users = entry],
         arena |-> Append(ar, [user |-> by, next |-> f[v].usage.users]),
         oops |-> NoOops]

\* The while loop of MVM_spesh_usages_delete: the first entry whose user is
\* by, with the entry before it, or cur = NULL when the chain is exhausted.
RECURSIVE delete_scan(_, _, _, _)
delete_scan(ar, cur, prev, by) ==
    IF cur = NULL THEN [cur |-> NULL, prev |-> prev]
    ELSE IF ar[cur].user = by THEN [cur |-> cur, prev |-> prev]
    ELSE delete_scan(ar, ar[cur].next, cur, by)

\* The diagnostic of MVM_spesh_usages_delete printing the opcode.
delete_oops_opcode(gr, by) ==
    [fmt |-> "Spesh: instruction %s missing from define-use chain",
     name |-> gr.ins[by].info.opcode]

\* The diagnostic of MVM_spesh_usages_delete.
delete_oops(gr, by) ==
    [fmt |-> "Spesh: instruction %s missing from define-use chain",
     name |-> gr.ins[by].info.name]

\* The scan of a delete that keeps the last entry whose user is by.
RECURSIVE delete_scan_last(_, _, _, _, _)
delete_scan_last(ar, cur, prev, by, found) ==
    IF cur = NULL THEN found
    ELSE delete_scan_last(ar, ar[cur].next, cur, by,
                          IF ar[cur].user = by
                          THEN [cur |-> cur, prev |-> prev] ELSE found)

\* MVM_spesh_usages_delete that unlinks the last matching entry.
usages_delete_last(gr, f, ar, v, by) ==
    LET s == delete_scan_last(ar, f[v].usage.users, NULL, by,
                              [cur |-> NULL, prev |-> NULL])
    IN  IF s.cur # NULL
        THEN IF s.prev # NULL
             THEN [facts |-> f,
                   arena |-> [ar EXCEPT ![s.prev].next = ar[s.cur].next],
                   oops |-> NoOops]
             ELSE [facts |-> [f EXCEPT ![v].usage.users = ar[s.cur].next],
                   arena |-> ar,
                   oops |-> NoOops]
        ELSE [facts |-> f, arena |-> ar, oops |-> delete_oops(gr, by)]

\* MVM_spesh_usages_delete that sets the chain head without looking at prev.
usages_delete_drop_prefix(gr, f, ar, v, by) ==
    LET s == delete_scan(ar, f[v].usage.users, NULL, by)
    IN  IF s.cur # NULL
        THEN [facts |-> [f EXCEPT ![v].usage.users = ar[s.cur].next],
              arena |-> ar, oops |-> NoOops]
        ELSE [facts |-> f, arena |-> ar, oops |-> delete_oops(gr, by)]

\* MVM_spesh_usages_delete that returns when the scan finds nothing.
usages_delete_silent(gr, f, ar, v, by) ==
    LET s == delete_scan(ar, f[v].usage.users, NULL, by)
    IN  IF s.cur # NULL
        THEN IF s.prev # NULL
             THEN [facts |-> f,
                   arena |-> [ar EXCEPT ![s.prev].next = ar[s.cur].next],
                   oops |-> NoOops]
             ELSE [facts |-> [f EXCEPT ![v].usage.users = ar[s.cur].next],
                   arena |-> ar,
                   oops |-> NoOops]
        ELSE [facts |-> f, arena |-> ar, oops |-> NoOops]

\* MVM_spesh_usages_delete that compares the first entry only.
usages_delete_head_only(gr, f, ar, v, by) ==
    LET cur == f[v].usage.users
    IN  IF cur # NULL /\ ar[cur].user = by
        THEN [facts |-> [f EXCEPT ![v].usage.users = ar[cur].next],
              arena |-> ar, oops |-> NoOops]
        ELSE [facts |-> f, arena |-> ar, oops |-> delete_oops(gr, by)]

\* MVM_spesh_usages_delete that scans with the chain head as its cursor.
usages_delete_advancing_head(gr, f, ar, v, by) ==
    LET s == delete_scan(ar, f[v].usage.users, NULL, by)
    IN  IF s.cur # NULL
        THEN [facts |-> [f EXCEPT ![v].usage.users = ar[s.cur].next],
              arena |-> ar, oops |-> NoOops]
        ELSE [facts |-> [f EXCEPT ![v].usage.users = NULL],
              arena |-> ar, oops |-> delete_oops(gr, by)]

\* MVM_spesh_usages_delete
usages_delete(gr, f, ar, v, by) ==
    LET s == delete_scan(ar, f[v].usage.users, NULL, by)
    IN  IF s.cur # NULL
        THEN IF s.prev # NULL
             THEN [facts |-> f,
                   arena |-> [ar EXCEPT ![s.prev].next = ar[s.cur].next],
                   oops |-> NoOops]
             ELSE [facts |-> [f EXCEPT ![v].usage.users = ar[s.cur].next],
                   arena |-> ar,
                   oops |-> NoOops]
        ELSE [facts |-> f, arena |-> ar, oops |-> delete_oops(gr, by)]

\* MVM_spesh_usages_add_for_deopt that flips the flag.
usages_add_for_deopt_toggle(f, v) ==
    [f EXCEPT ![v].usage.deopt_required = 1 - @]

\* MVM_spesh_usages_add_for_deopt
usages_add_for_deopt(f, v) == [f EXCEPT ![v].usage.deopt_required = 1]

\* MVM_spesh_usages_add_for_handler that sets both flags.
usages_add_for_handler_both(f, v) ==
    [f EXCEPT ![v].usage.handler_required = 1,
              ![v].usage.deopt_required = 1]

\* MVM_spesh_usages_add_for_handler
usages_add_for_handler(f, v) == [f EXCEPT ![v].usage.handler_required = 1]

\* C truth value of a condition.
CBool(b) == IF b THEN 1 ELSE 0

\* MVM_spesh_usages_is_used without the handler_required operand.
usages_is_used_no_handler(f, check) ==
    LET fc == MVM_spesh_get_facts(f, check)
    IN  CBool(fc.usage.deopt_required # 0 \/ fc.usage.users # NULL)

\* MVM_spesh_usages_is_used
usages_is_used(f, check) ==
    LET fc == MVM_spesh_get_facts(f, check)
    IN  CBool(fc.usage.deopt_required # 0 \/ fc.usage.handler_required # 0
              \/ fc.usage.users # NULL)

\* MVM_spesh_usages_is_used_by_deopt
usages_is_used_by_deopt(f, check) ==
    MVM_spesh_get_facts(f, check).usage.deopt_required

\* MVM_spesh_usages_is_used_by_handler
usages_is_used_by_handler(f, check) ==
    MVM_spesh_get_facts(f, check).usage.handler_required

\* MVM_spesh_usages_used_once without the deopt_required operand.
usages_used_once_no_deopt(f, ar, check) ==
    LET fc == MVM_spesh_get_facts(f, check)
    IN  CBool(fc.usage.handler_required = 0
              /\ fc.usage.users # NULL /\ ar[fc.usage.users].next = NULL)

\* MVM_spesh_usages_used_once
usages_used_once(f, ar, check) ==
    LET fc == MVM_spesh_get_facts(f, check)
    IN  CBool(fc.usage.deopt_required = 0 /\ fc.usage.handler_required = 0
              /\ fc.usage.users # NULL /\ ar[fc.usage.users].next = NULL)

\* The while loop of MVM_spesh_usages_count.
RECURSIVE count_loop(_, _, _)
count_loop(ar, cur, count) ==
    IF cur = NULL THEN count ELSE count_loop(ar, ar[cur].next, count + 1)

\* MVM_spesh_usages_count that starts the count at the deopt flag.
usages_count_with_deopt(f, ar, check) ==
    count_loop(ar, MVM_spesh_get_facts(f, check).usage.users,
               MVM_spesh_get_facts(f, check).usage.deopt_required)

\* MVM_spesh_usages_count
usages_count(f, ar, check) ==
    count_loop(ar, MVM_spesh_get_facts(f, check).usage.users, 0)

-----------------------------------------------------------------------------
\* MVM_spesh_usages_check

\* The inner while loop that looks at the head entry only.
check_found_head(ar, use_entry, cur_ins) ==
    IF use_entry # NULL /\ ar[use_entry].user = cur_ins THEN 1 ELSE 0

\* The inner while loop without the comparison of the user: is there an
\* entry at all.
check_found_any(ar, use_entry, cur_ins) ==
    IF use_entry = NULL THEN 0 ELSE 1

\* The inner while loop of the read case: is there an entry whose user is
\* cur_ins on the chain starting at use_entry.
RECURSIVE check_found(_, _, _)
check_found(ar, use_entry, cur_ins) ==
    IF use_entry = NULL THEN 0
    ELSE IF ar[use_entry].user = cur_ins THEN 1
    ELSE check_found(ar, ar[use_entry].next, cur_ins)

\* The read test that goes by the operand descriptor for a PHI too.
check_is_read_no_phi(ins, i) ==
    ins.info.operands[i + 1] = MVM_operand_read_reg

\* Is slot i of the instruction checked as a read.
check_is_read(ins, i) ==
    LET is_phi == ins.info.opcode = MVM_SSA_PHI
    IN  (is_phi /\ i > 0)
        \/ (~is_phi /\ ins.info.operands[i + 1] = MVM_operand_read_reg)

\* The write test that goes by the operand descriptor for a PHI too.
check_is_write_no_phi(ins, i) ==
    ins.info.operands[i + 1] = MVM_operand_write_reg

\* Is slot i of the instruction checked as a write.
check_is_write(ins, i) ==
    LET is_phi == ins.info.opcode = MVM_SSA_PHI
    IN  (is_phi /\ i = 0)
        \/ (~is_phi /\ ins.info.operands[i + 1] = MVM_operand_write_reg)

\* The body of the for loop printing the block pointer for the block index.
check_slot_bb_pointer(gr, f, ar, cur_bb, cur_ins, i) ==
    LET ins == gr.ins[cur_ins]
        is_phi == ins.info.opcode = MVM_SSA_PHI
        opnd == ins.operands[i + 1]
        fc == f[Operand(opnd.orig, opnd.i)]
        name == IF is_phi THEN "PHI" ELSE ins.info.name
    IN  IF check_is_read(ins, i)
        THEN IF check_found(ar, fc.usage.users, cur_ins) = 0
             THEN [fmt |-> "Malformed DU chain: reader %s of %d(%d) in BB %d missing",
                   name |-> name, orig |-> opnd.orig, i |-> opnd.i,
                   bb |-> cur_bb]
             ELSE NoOops
        ELSE IF check_is_write(ins, i)
        THEN IF fc.writer # cur_ins
             THEN [fmt |-> "Malformed DU chain: writer %s of %d(%d) in BB %d is incorrect",
                   name |-> name, orig |-> opnd.orig, i |-> opnd.i,
                   bb |-> cur_bb]
             ELSE NoOops
        ELSE NoOops

\* The body of the for loop without the write case.
check_slot_reads_only(gr, f, ar, cur_bb, cur_ins, i) ==
    LET ins == gr.ins[cur_ins]
        is_phi == ins.info.opcode = MVM_SSA_PHI
        opnd == ins.operands[i + 1]
        fc == f[Operand(opnd.orig, opnd.i)]
        name == IF is_phi THEN "PHI" ELSE ins.info.name
    IN  IF check_is_read(ins, i)
        THEN IF check_found(ar, fc.usage.users, cur_ins) = 0
             THEN [fmt |-> "Malformed DU chain: reader %s of %d(%d) in BB %d missing",
                   name |-> name, orig |-> opnd.orig, i |-> opnd.i,
                   bb |-> gr.bbs[cur_bb].idx]
             ELSE NoOops
        ELSE NoOops

\* The body of the for loop: the diagnostic slot i raises, or NoOops.
check_slot(gr, f, ar, cur_bb, cur_ins, i) ==
    LET ins == gr.ins[cur_ins]
        is_phi == ins.info.opcode = MVM_SSA_PHI
        opnd == ins.operands[i + 1]
        fc == f[Operand(opnd.orig, opnd.i)]
        name == IF is_phi THEN "PHI" ELSE ins.info.name
    IN  IF check_is_read(ins, i)
        THEN IF check_found(ar, fc.usage.users, cur_ins) = 0
             THEN [fmt |-> "Malformed DU chain: reader %s of %d(%d) in BB %d missing",
                   name |-> name, orig |-> opnd.orig, i |-> opnd.i,
                   bb |-> gr.bbs[cur_bb].idx]
             ELSE NoOops
        ELSE IF check_is_write(ins, i)
        THEN IF fc.writer # cur_ins
             THEN [fmt |-> "Malformed DU chain: writer %s of %d(%d) in BB %d is incorrect",
                   name |-> name, orig |-> opnd.orig, i |-> opnd.i,
                   bb |-> gr.bbs[cur_bb].idx]
             ELSE NoOops
        ELSE NoOops

\* The for loop over the operand slots from slot i on.
RECURSIVE check_operands(_, _, _, _, _, _)
check_operands(gr, f, ar, cur_bb, cur_ins, i) ==
    IF ~(i < gr.ins[cur_ins].info.num_operands) THEN NoOops
    ELSE LET d == check_slot(gr, f, ar, cur_bb, cur_ins, i)
         IN  IF d # NoOops THEN d
             ELSE check_operands(gr, f, ar, cur_bb, cur_ins, i + 1)

\* The while loop over the instructions of a block from cur_ins on.
RECURSIVE check_instructions(_, _, _, _, _)
check_instructions(gr, f, ar, cur_bb, cur_ins) ==
    IF cur_ins = NULL THEN NoOops
    ELSE LET d == check_operands(gr, f, ar, cur_bb, cur_ins, 0)
         IN  IF d # NoOops THEN d
             ELSE check_instructions(gr, f, ar, cur_bb, gr.ins[cur_ins].next)

\* The loop over the blocks that stops after the block it is given.
check_blocks_first_only(gr, f, ar, cur_bb) ==
    IF cur_bb = NULL THEN NoOops
    ELSE check_instructions(gr, f, ar, cur_bb, gr.bbs[cur_bb].first_ins)

\* The while loop over the blocks from cur_bb on.
RECURSIVE check_blocks(_, _, _, _)
check_blocks(gr, f, ar, cur_bb) ==
    IF cur_bb = NULL THEN NoOops
    ELSE LET d == check_instructions(gr, f, ar, cur_bb, gr.bbs[cur_bb].first_ins)
         IN  IF d # NoOops THEN d
             ELSE check_blocks(gr, f, ar, gr.bbs[cur_bb].linear_next)

\* MVM_spesh_usages_check: the diagnostic raised, or NoOops.
usages_check(gr, f, ar) == check_blocks(gr, f, ar, gr.entry)

-----------------------------------------------------------------------------
\* The state machine.  g is the instruction stream, facts the facts table,
\* arena the chain entries allocated so far, oops the diagnostic of the
\* fatal error once MVM_oops was called.  last records the latest call: its
\* name, arguments, return value, the chain and flags of its value before
\* the call, and, for an MVM_spesh_usages_delete that directly follows the
\* MVM_spesh_usages_add of the same value and instruction, the chain before
\* that add.  regCalls and unregOK count, per value, the calls of
\* MVM_spesh_usages_add and the calls of MVM_spesh_usages_delete that
\* returned.

Snapshot(f, ar, v) ==
    [chain |-> ChainOf(f, ar, v),
     deopt |-> f[v].usage.deopt_required,
     handler |-> f[v].usage.handler_required]

Call(op, v, by, ret) ==
    [op |-> op, v |-> v, by |-> by, ret |-> ret,
     pre |-> Snapshot(facts, arena, v),
     after_add |-> FALSE, base |-> <<>>]

\* No call is in progress.
Idle == [op |-> "idle"]

\* The threads that may call into the graph, none of them inside a call of
\* add and none having made one.
Workers == {1, 2}

NoWorkers == [at |-> [w \in Workers |-> [pc |-> "idle"]], acted |-> {}]

InitWith(graphs) ==
    /\ \E c \in graphs :
          /\ g = [entry |-> c.entry, bbs |-> c.bbs, ins |-> c.ins]
          /\ facts = [v \in Values |->
                        [writer |-> c.writer[v],
                         usage |-> [users |-> NULL, deopt_required |-> 0,
                                    handler_required |-> 0]]]
    /\ arena = <<>>
    /\ oops = NoOops
    /\ last = [op |-> "none", v |-> V1, by |-> NULL, ret |-> 0,
               pre |-> [chain |-> <<>>, deopt |-> 0, handler |-> 0],
               after_add |-> FALSE, base |-> <<>>]
    /\ regCalls = [v \in Values |-> 0]
    /\ unregOK = [v \in Values |-> 0]
    /\ run = Idle
    /\ workers = NoWorkers

Init == InitWith({GraphScenario})

\* MVM_oops that returns to its caller.
RunningAfterOops == TRUE

\* MVM_oops ends the process: no call is made after it.
Running == oops = NoOops

\* A call of MVM_spesh_usages_add while the arena has handed out fewer than
\* cap entries.
AddUpTo(v, by, cap) ==
    /\ Running
    /\ run = Idle
    /\ Len(arena) < cap
    /\ LET r == usages_add(facts, arena, v, by)
       IN  /\ facts' = r.facts
           /\ arena' = r.arena
    /\ last' = Call("add", v, by, 0)
    /\ regCalls' = [regCalls EXCEPT ![v] = @ + 1]
    /\ UNCHANGED <<workers, run, g, oops, unregOK>>

Add(v, by) == AddUpTo(v, by, MaxEntries)

\* The record of a call of delete: it names the chain before the add when
\* the call before it was the add of the same instruction to the same
\* value.
DeleteCall(v, by) ==
    IF last.op = "add" /\ last.v = v /\ last.by = by
    THEN [Call("delete", v, by, 0) EXCEPT
             !.after_add = TRUE, !.base = last.pre.chain]
    ELSE Call("delete", v, by, 0)

Delete(v, by) ==
    /\ Running
    /\ LET r == usages_delete(g, facts, arena, v, by)
       IN  /\ facts' = r.facts
           /\ arena' = r.arena
           /\ oops' = r.oops
           /\ unregOK' = IF r.oops = NoOops
                         THEN [unregOK EXCEPT ![v] = @ + 1]
                         ELSE unregOK
    /\ last' = DeleteCall(v, by)
    /\ UNCHANGED <<workers, run, g, regCalls>>

AddForDeopt(v) ==
    /\ Running
    /\ facts' = usages_add_for_deopt(facts, v)
    /\ last' = Call("add_for_deopt", v, NULL, 0)
    /\ UNCHANGED <<workers, run, g, arena, oops, regCalls, unregOK>>

AddForHandler(v) ==
    /\ Running
    /\ facts' = usages_add_for_handler(facts, v)
    /\ last' = Call("add_for_handler", v, NULL, 0)
    /\ UNCHANGED <<workers, run, g, arena, oops, regCalls, unregOK>>

IsUsed(v) ==
    /\ Running
    /\ last' = Call("is_used", v, NULL, usages_is_used(facts, v))
    /\ UNCHANGED <<workers, run, g, facts, arena, oops, regCalls, unregOK>>

IsUsedByDeopt(v) ==
    /\ Running
    /\ last' = Call("is_used_by_deopt", v, NULL, usages_is_used_by_deopt(facts, v))
    /\ UNCHANGED <<workers, run, g, facts, arena, oops, regCalls, unregOK>>

IsUsedByHandler(v) ==
    /\ Running
    /\ last' = Call("is_used_by_handler", v, NULL, usages_is_used_by_handler(facts, v))
    /\ UNCHANGED <<workers, run, g, facts, arena, oops, regCalls, unregOK>>

UsedOnce(v) ==
    /\ Running
    /\ last' = Call("used_once", v, NULL, usages_used_once(facts, arena, v))
    /\ UNCHANGED <<workers, run, g, facts, arena, oops, regCalls, unregOK>>

\* MVM_spesh_usages_count that walks the chain with the head pointer of the
\* facts.
CountAdvancingHead(v) ==
    /\ Running
    /\ last' = Call("count", v, NULL, usages_count(facts, arena, v))
    /\ facts' = [facts EXCEPT ![v].usage.users = NULL]
    /\ UNCHANGED <<workers, run, g, arena, oops, regCalls, unregOK>>

Count(v) ==
    /\ Running
    /\ last' = Call("count", v, NULL, usages_count(facts, arena, v))
    /\ UNCHANGED <<workers, run, g, facts, arena, oops, regCalls, unregOK>>

Check ==
    /\ Running
    /\ oops' = usages_check(g, facts, arena)
    /\ last' = Call("check", V1, NULL, 0)
    /\ UNCHANGED <<workers, run, g, facts, arena, regCalls, unregOK>>

Next ==
    \/ \E v \in Values, by \in Ins : Add(v, by)
    \/ \E v \in Values, by \in Ins : Delete(v, by)
    \/ \E v \in Values : AddForDeopt(v)
    \/ \E v \in Values : AddForHandler(v)
    \/ \E v \in Values : IsUsed(v)
    \/ \E v \in Values : IsUsedByDeopt(v)
    \/ \E v \in Values : IsUsedByHandler(v)
    \/ \E v \in Values : UsedOnce(v)
    \/ \E v \in Values : Count(v)
    \/ Check

Spec == Init /\ [][Next]_vars

\* The chain operations and the checker alone, on every graph, with longer
\* chains.
InitChain == InitWith(Graphs)

ChainAdd(v, by) == AddUpTo(v, by, MaxChainEntries)

NextChain ==
    \/ \E v \in Values, by \in Ins : ChainAdd(v, by)
    \/ \E v \in Values, by \in Ins : Delete(v, by)
    \/ Check

SpecChain == InitChain /\ [][NextChain]_vars

\* The chain operations and the checker on the two graphs in which an
\* instruction reads a value: the runs in which the order of a chain could
\* show.
InitOrder == InitWith({GraphScenario, GraphTwoWriters})

OrderAdd(v, by) == AddUpTo(v, by, MaxOrderEntries)

NextOrder ==
    \/ \E v \in Values, by \in Ins : OrderAdd(v, by)
    \/ \E v \in Values, by \in Ins : Delete(v, by)
    \/ Check

SpecOrder == InitOrder /\ [][NextOrder]_vars

\* ---- The forms that take an operand ----

\* The address MVM_spesh_get_facts returns for an operand: the slot of the
\* facts table at the register and the version of the operand.
facts_of(used) == Operand(used.orig, used.i)

\* MVM_spesh_usages_add_by_reg
usages_add_by_reg(f, ar, used, by) == usages_add(f, ar, facts_of(used), by)

\* MVM_spesh_usages_delete_by_reg
usages_delete_by_reg(gr, f, ar, used, by) ==
    usages_delete(gr, f, ar, facts_of(used), by)

\* MVM_spesh_usages_add_for_deopt_by_reg
usages_add_for_deopt_by_reg(f, used) ==
    usages_add_for_deopt(f, facts_of(used))

\* MVM_spesh_usages_add_for_handler_by_reg that calls the deopt form.
usages_add_for_handler_by_reg_deopt(f, used) ==
    usages_add_for_deopt(f, facts_of(used))

\* MVM_spesh_usages_add_for_handler_by_reg
usages_add_for_handler_by_reg(f, used) ==
    usages_add_for_handler(f, facts_of(used))

AddByReg(used, by) ==
    /\ Running
    /\ Len(arena) < MaxByRegEntries
    /\ LET r == usages_add_by_reg(facts, arena, used, by)
       IN  /\ facts' = r.facts
           /\ arena' = r.arena
    /\ last' = Call("add_by_reg", used, by, 0)
    /\ regCalls' = [regCalls EXCEPT ![facts_of(used)] = @ + 1]
    /\ UNCHANGED <<workers, run, g, oops, unregOK>>

DeleteByReg(used, by) ==
    /\ Running
    /\ LET r == usages_delete_by_reg(g, facts, arena, used, by)
       IN  /\ facts' = r.facts
           /\ arena' = r.arena
           /\ oops' = r.oops
           /\ unregOK' = IF r.oops = NoOops
                         THEN [unregOK EXCEPT ![facts_of(used)] = @ + 1]
                         ELSE unregOK
    /\ last' = Call("delete_by_reg", used, by, 0)
    /\ UNCHANGED <<workers, run, g, regCalls>>

AddForDeoptByReg(used) ==
    /\ Running
    /\ facts' = usages_add_for_deopt_by_reg(facts, used)
    /\ last' = Call("add_for_deopt_by_reg", used, NULL, 0)
    /\ UNCHANGED <<workers, run, g, arena, oops, regCalls, unregOK>>

AddForHandlerByReg(used) ==
    /\ Running
    /\ facts' = usages_add_for_handler_by_reg(facts, used)
    /\ last' = Call("add_for_handler_by_reg", used, NULL, 0)
    /\ UNCHANGED <<workers, run, g, arena, oops, regCalls, unregOK>>

NextByReg ==
    \/ \E used \in Values, by \in Ins : AddByReg(used, by)
    \/ \E used \in Values, by \in Ins : DeleteByReg(used, by)
    \/ \E used \in Values : AddForDeoptByReg(used)
    \/ \E used \in Values : AddForHandlerByReg(used)

SpecByReg == Init /\ [][NextByReg]_vars

\* ---- MVM_spesh_usages_add statement by statement, on two threads ----

\* The first two statements of MVM_spesh_usages_add: the new entry and the
\* arena with its user set.
add_alloc(ar, by) ==
    [entry |-> MVM_spesh_alloc(ar),
     arena |-> Append(ar, [user |-> by, next |-> NULL])]

\* The third statement without the read of the chain head.
add_read_head_null(f, ar, v, entry) == [ar EXCEPT ![entry].next = NULL]

\* The third statement: the chain head is read into the next of the entry.
add_read_head(f, ar, v, entry) ==
    [ar EXCEPT ![entry].next = f[v].usage.users]

\* The fourth statement: the entry is written to the chain head.
add_write_head(f, v, entry) == [f EXCEPT ![v].usage.users = entry]

WorkerAlloc(w, v, by) ==
    /\ Running
    /\ workers.at[w].pc = "idle"
    /\ Len(arena) < MaxWorkerEntries
    /\ LET r == add_alloc(arena, by)
       IN  /\ arena' = r.arena
           /\ workers' = [at |-> [workers.at EXCEPT ![w] =
                                    [pc |-> "alloc", v |-> v, by |-> by,
                                     entry |-> r.entry]],
                          acted |-> workers.acted \cup {w}]
    /\ UNCHANGED <<run, g, facts, oops, last, regCalls, unregOK>>

WorkerReadHead(w) ==
    /\ workers.at[w].pc = "alloc"
    /\ arena' = add_read_head(facts, arena, workers.at[w].v,
                              workers.at[w].entry)
    /\ workers' = [workers EXCEPT !.at[w].pc = "read"]
    /\ UNCHANGED <<run, g, facts, oops, last, regCalls, unregOK>>

WorkerWriteHead(w) ==
    /\ workers.at[w].pc = "read"
    /\ facts' = add_write_head(facts, workers.at[w].v, workers.at[w].entry)
    /\ last' = Call("add", workers.at[w].v, workers.at[w].by, 0)
    /\ regCalls' = [regCalls EXCEPT ![workers.at[w].v] = @ + 1]
    /\ workers' = [workers EXCEPT !.at[w] = [pc |-> "idle"]]
    /\ UNCHANGED <<run, g, arena, oops, unregOK>>

NextWorkers ==
    \/ \E w \in Workers, v \in Values, by \in Ins : WorkerAlloc(w, v, by)
    \/ \E w \in Workers : WorkerReadHead(w)
    \/ \E w \in Workers : WorkerWriteHead(w)

SpecWorkers == Init /\ [][NextWorkers]_vars

\* ---- The loops of delete, count and the checker, one iteration a step ----

\* One iteration of the while loop of MVM_spesh_usages_delete that does not
\* advance cur.
delete_step_no_advance(gr, f, ar, v, by, cur, prev) ==
    IF cur # NULL
    THEN IF ar[cur].user = by
         THEN IF prev # NULL
              THEN [done |-> TRUE, cur |-> cur, prev |-> prev, facts |-> f,
                    arena |-> [ar EXCEPT ![prev].next = ar[cur].next],
                    oops |-> NoOops]
              ELSE [done |-> TRUE, cur |-> cur, prev |-> prev,
                    facts |-> [f EXCEPT ![v].usage.users = ar[cur].next],
                    arena |-> ar, oops |-> NoOops]
         ELSE [done |-> FALSE, cur |-> cur, prev |-> cur,
               facts |-> f, arena |-> ar, oops |-> NoOops]
    ELSE [done |-> TRUE, cur |-> cur, prev |-> prev, facts |-> f,
          arena |-> ar, oops |-> delete_oops(gr, by)]

\* One iteration of the while loop of MVM_spesh_usages_delete, or the
\* MVM_oops after it when cur is NULL.
delete_step(gr, f, ar, v, by, cur, prev) ==
    IF cur # NULL
    THEN IF ar[cur].user = by
         THEN IF prev # NULL
              THEN [done |-> TRUE, cur |-> cur, prev |-> prev, facts |-> f,
                    arena |-> [ar EXCEPT ![prev].next = ar[cur].next],
                    oops |-> NoOops]
              ELSE [done |-> TRUE, cur |-> cur, prev |-> prev,
                    facts |-> [f EXCEPT ![v].usage.users = ar[cur].next],
                    arena |-> ar, oops |-> NoOops]
         ELSE [done |-> FALSE, cur |-> ar[cur].next, prev |-> cur,
               facts |-> f, arena |-> ar, oops |-> NoOops]
    ELSE [done |-> TRUE, cur |-> cur, prev |-> prev, facts |-> f,
          arena |-> ar, oops |-> delete_oops(gr, by)]

\* One iteration of the while loop of MVM_spesh_usages_count, or the return
\* after it when cur is NULL.
count_step(ar, cur, count) ==
    IF cur # NULL
    THEN [done |-> FALSE, cur |-> ar[cur].next, count |-> count + 1]
    ELSE [done |-> TRUE, cur |-> cur, count |-> count]

\* The diagnostic of MVM_spesh_usages_check for slot i of cur_ins.
check_oops(gr, fmt, cur_bb, cur_ins, i) ==
    LET ins == gr.ins[cur_ins]
        opnd == ins.operands[i + 1]
    IN  [fmt |-> fmt,
         name |-> IF ins.info.opcode = MVM_SSA_PHI THEN "PHI"
                  ELSE ins.info.name,
         orig |-> opnd.orig, i |-> opnd.i, bb |-> gr.bbs[cur_bb].idx]

\* One test of a loop condition of MVM_spesh_usages_check and the
\* statements up to the next one.  st.at names the loop whose condition is
\* tested: that of the blocks, of the instructions, of the operand slots or
\* of the chain entries.
check_step(gr, f, ar, st) ==
    LET go(t) == [done |-> FALSE, st |-> t, oops |-> NoOops]
        stop(d) == [done |-> TRUE, st |-> st, oops |-> d]
    IN  CASE st.at = "bb" ->
               IF st.cur_bb # NULL
               THEN go([st EXCEPT !.at = "ins",
                                  !.cur_ins = gr.bbs[st.cur_bb].first_ins])
               ELSE stop(NoOops)
          [] st.at = "ins" ->
               IF st.cur_ins # NULL
               THEN go([st EXCEPT !.at = "for", !.i = 0])
               ELSE go([st EXCEPT !.at = "bb",
                                  !.cur_bb = gr.bbs[st.cur_bb].linear_next])
          [] st.at = "for" ->
               LET ins == gr.ins[st.cur_ins]
               IN  IF ~(st.i < ins.info.num_operands)
                   THEN go([st EXCEPT !.at = "ins", !.cur_ins = ins.next])
                   ELSE LET opnd == ins.operands[st.i + 1]
                            fc == f[Operand(opnd.orig, opnd.i)]
                        IN  IF check_is_read(ins, st.i)
                            THEN go([st EXCEPT !.at = "use",
                                               !.use_entry = fc.usage.users])
                            ELSE IF check_is_write(ins, st.i)
                            THEN IF fc.writer # st.cur_ins
                                 THEN stop(check_oops(gr,
                                        "Malformed DU chain: writer %s of %d(%d) in BB %d is incorrect",
                                        st.cur_bb, st.cur_ins, st.i))
                                 ELSE go([st EXCEPT !.i = @ + 1])
                            ELSE go([st EXCEPT !.i = @ + 1])
          [] st.at = "use" ->
               IF st.use_entry # NULL
               THEN IF ar[st.use_entry].user = st.cur_ins
                    THEN go([st EXCEPT !.at = "for", !.i = @ + 1])
                    ELSE go([st EXCEPT !.use_entry = ar[st.use_entry].next])
               ELSE stop(check_oops(gr,
                           "Malformed DU chain: reader %s of %d(%d) in BB %d missing",
                           st.cur_bb, st.cur_ins, st.i))

\* A call of MVM_spesh_usages_delete enters its loop.
DeleteBegin(v, by) ==
    /\ Running
    /\ run = Idle
    /\ run' = [op |-> "delete", v |-> v, by |-> by,
               cur |-> facts[v].usage.users, prev |-> NULL,
               call |-> DeleteCall(v, by)]
    /\ UNCHANGED <<workers, g, facts, arena, oops, last, regCalls, unregOK>>

\* The call of MVM_spesh_usages_delete in progress runs one iteration.
DeleteStep ==
    /\ run.op = "delete"
    /\ LET r == delete_step(g, facts, arena, run.v, run.by, run.cur, run.prev)
       IN  /\ facts' = r.facts
           /\ arena' = r.arena
           /\ oops' = r.oops
           /\ run' = IF r.done THEN Idle
                     ELSE [run EXCEPT !.cur = r.cur, !.prev = r.prev]
           /\ last' = IF r.done THEN run.call ELSE last
           /\ unregOK' = IF r.done /\ r.oops = NoOops
                         THEN [unregOK EXCEPT ![run.v] = @ + 1]
                         ELSE unregOK
    /\ UNCHANGED <<workers, g, regCalls>>

\* A call of MVM_spesh_usages_count enters its loop.
CountBegin(v) ==
    /\ Running
    /\ run = Idle
    /\ run' = [op |-> "count", v |-> v,
               cur |-> MVM_spesh_get_facts(facts, v).usage.users,
               count |-> 0, call |-> Call("count", v, NULL, 0)]
    /\ UNCHANGED <<workers, g, facts, arena, oops, last, regCalls, unregOK>>

\* The call of MVM_spesh_usages_count in progress runs one iteration.
CountStep ==
    /\ run.op = "count"
    /\ LET r == count_step(arena, run.cur, run.count)
       IN  /\ run' = IF r.done THEN Idle
                     ELSE [run EXCEPT !.cur = r.cur, !.count = r.count]
           /\ last' = IF r.done THEN [run.call EXCEPT !.ret = r.count]
                      ELSE last
    /\ UNCHANGED <<workers, g, facts, arena, oops, regCalls, unregOK>>

\* A call of MVM_spesh_usages_check that enters its outer loop at the block
\* after the entry block.
CheckBeginAfterEntry ==
    /\ Running
    /\ run = Idle
    /\ run' = [op |-> "check", at |-> "bb",
               cur_bb |-> g.bbs[g.entry].linear_next,
               cur_ins |-> NULL, i |-> 0, use_entry |-> NULL,
               call |-> Call("check", V1, NULL, 0)]
    /\ UNCHANGED <<workers, g, facts, arena, oops, last, regCalls, unregOK>>

\* A call of MVM_spesh_usages_check enters its outer loop.
CheckBegin ==
    /\ Running
    /\ run = Idle
    /\ run' = [op |-> "check", at |-> "bb", cur_bb |-> g.entry,
               cur_ins |-> NULL, i |-> 0, use_entry |-> NULL,
               call |-> Call("check", V1, NULL, 0)]
    /\ UNCHANGED <<workers, g, facts, arena, oops, last, regCalls, unregOK>>

\* The call of MVM_spesh_usages_check in progress tests one loop condition.
CheckStep ==
    /\ run.op = "check"
    /\ LET r == check_step(g, facts, arena, run)
       IN  /\ oops' = r.oops
           /\ run' = IF r.done THEN Idle ELSE r.st
           /\ last' = IF r.done THEN run.call ELSE last
    /\ UNCHANGED <<workers, g, facts, arena, regCalls, unregOK>>

InitSteps == InitWith({GraphScenario, GraphPhi, GraphTwoWriters})

StepAdd(v, by) == AddUpTo(v, by, MaxStepEntries)

\* The call in progress, if any, runs on.
StepOn == DeleteStep \/ CountStep \/ CheckStep

NextSteps ==
    \/ \E v \in Values, by \in Ins : StepAdd(v, by)
    \/ \E v \in Values, by \in Ins : DeleteBegin(v, by)
    \/ \E v \in Values : CountBegin(v)
    \/ CheckBegin
    \/ DeleteStep
    \/ CountStep
    \/ CheckStep

\* A call is a synchronous C call on the one thread that owns the graph: it
\* runs on until it returns or raises the fatal error.
SpecSteps == InitSteps /\ [][NextSteps]_vars /\ WF_vars(StepOn)

-----------------------------------------------------------------------------
\* Properties.

\* The chain, the flags and the chain length of value v in the current state.
ChainNow(v) == ChainOf(facts, arena, v)
DeoptNow(v) == facts[v].usage.deopt_required
HandlerNow(v) == facts[v].usage.handler_required

\* The value is used according to I5: a chain entry or one of the flags.
UsedI5(ch, deopt, handler) == Len(ch) > 0 \/ deopt = 1 \/ handler = 1

\* C1: in every reachable state MVM_spesh_usages_is_used of a value is true
\* exactly when its chain is non-empty or deopt_required or handler_required
\* is set, and a call of it returns that.
C1_IsUsedIffChainOrFlags ==
    /\ \A v \in Values :
          (usages_is_used(facts, v) # 0)
              <=> UsedI5(ChainNow(v), DeoptNow(v), HandlerNow(v))
    /\ last.op = "is_used" =>
          last.ret = CBool(UsedI5(last.pre.chain, last.pre.deopt, last.pre.handler))
    /\ last.op = "none" => \A v \in Values : usages_is_used(facts, v) = 0

\* C1 witness: is_used returned true for a value with an empty chain that is
\* required only by a handler.
C1_Witness ==
    /\ last.op = "is_used" /\ last.ret = 1
    /\ last.pre.chain = <<>> /\ last.pre.deopt = 0 /\ last.pre.handler = 1
    /\ unregOK[last.v] > 0

\* C2: in every reachable state MVM_spesh_usages_count of a value is the
\* number of add calls for it minus the number of delete calls for it that
\* returned, whatever the flags are, and a call of it returns that.
C2_CountIsAddsMinusDeletes ==
    /\ \A v \in Values :
          usages_count(facts, arena, v) = regCalls[v] - unregOK[v]
    /\ last.op = "count" => last.ret = regCalls[last.v] - unregOK[last.v]

\* C2 witness: count returned 1 after two adds and one delete, with both
\* flags of the value set.
C2_Witness ==
    /\ last.op = "count" /\ last.ret = 1
    /\ regCalls[last.v] = 2 /\ unregOK[last.v] = 1
    /\ last.pre.deopt = 1 /\ last.pre.handler = 1

\* C3: in every reachable state MVM_spesh_usages_used_once of a value is
\* true exactly when both flags are clear and the chain has one entry, and
\* a call of it returns that.
C3_UsedOnceIff ==
    /\ \A v \in Values :
          (usages_used_once(facts, arena, v) # 0)
              <=> (DeoptNow(v) = 0 /\ HandlerNow(v) = 0 /\ Len(ChainNow(v)) = 1)
    /\ last.op = "used_once" =>
          last.ret = CBool(last.pre.deopt = 0 /\ last.pre.handler = 0
                           /\ Len(last.pre.chain) = 1)

\* C3 witness: used_once returned false for a value with one chain entry
\* that is marked for deopt.
C3_Witness ==
    /\ last.op = "used_once" /\ last.ret = 0
    /\ Len(last.pre.chain) = 1 /\ last.pre.deopt = 1 /\ last.pre.handler = 0

\* The set of entries of a chain.
EntrySet(ch) == {ch[k] : k \in 1..Len(ch)}

\* C4: every call of MVM_spesh_usages_add links exactly one new entry for
\* the instruction into the value's chain and keeps every entry that was
\* there, also when the chain already holds entries of that instruction;
\* the entries of a chain are pairwise distinct.
C4_AddNeverDeduplicates ==
    /\ last.op = "add" =>
          LET ch == ChainNow(last.v)
              new == EntrySet(ch) \ EntrySet(last.pre.chain)
          IN  /\ Len(ch) = Len(last.pre.chain) + 1
              /\ usages_count(facts, arena, last.v) = Len(last.pre.chain) + 1
              /\ CountUser(arena, ch, last.by)
                    = CountUser(arena, last.pre.chain, last.by) + 1
              /\ EntrySet(last.pre.chain) \subseteq EntrySet(ch)
              /\ Cardinality(new) = 1
              /\ \A e \in new : arena[e].user = last.by
    /\ \A v \in Values : Cardinality(EntrySet(ChainNow(v))) = Len(ChainNow(v))

\* C4 witness: a third add of the same instruction for the same value, after
\* which the chain holds three entries of it.
C4_Witness ==
    /\ last.op = "add"
    /\ CountUser(arena, last.pre.chain, last.by) = 2
    /\ CountUser(arena, ChainNow(last.v), last.by) = 3

\* The state after n calls of MVM_spesh_usages_delete in a row, or the state
\* of the first of them that failed.
RECURSIVE DeleteTimes(_, _, _, _, _, _)
DeleteTimes(gr, f, ar, v, by, n) ==
    IF n = 0 THEN [facts |-> f, arena |-> ar, oops |-> NoOops]
    ELSE LET r == usages_delete(gr, f, ar, v, by)
         IN  IF r.oops # NoOops THEN r
             ELSE DeleteTimes(gr, r.facts, r.arena, v, by, n - 1)

\* C5: a call of MVM_spesh_usages_delete returns exactly when the chain it
\* was given holds an entry of the instruction, and then the chain is one
\* entry of that instruction shorter with the entries of other instructions
\* as they were; from a chain with N entries of the instruction, N calls in
\* a row return, each lowering the count by one and leaving the other
\* entries and the other values' chains alone, and call N+1 fails.
C5_DeleteRemovesExactlyOne ==
    /\ last.op = "delete" =>
          LET ch == ChainNow(last.v)
              pre == last.pre.chain
          IN  /\ (oops = NoOops) <=> (CountUser(arena, pre, last.by) > 0)
              /\ oops = NoOops =>
                    /\ Len(ch) = Len(pre) - 1
                    /\ CountUser(arena, ch, last.by)
                          = CountUser(arena, pre, last.by) - 1
                    /\ OthersOf(arena, ch, last.by) = OthersOf(arena, pre, last.by)
    /\ Running =>
          \A v \in Values, by \in Ins :
             LET ch == ChainNow(v)
                 N == CountUser(arena, ch, by)
             IN  /\ \A k \in 1..N :
                       LET r == DeleteTimes(g, facts, arena, v, by, k)
                           rch == ChainOf(r.facts, r.arena, v)
                       IN  /\ r.oops = NoOops
                           /\ usages_count(r.facts, r.arena, v) = Len(ch) - k
                           /\ CountUser(r.arena, rch, by) = N - k
                           /\ OthersOf(r.arena, rch, by) = OthersOf(arena, ch, by)
                           /\ \A w \in Values \ {v} :
                                 ChainOf(r.facts, r.arena, w) = ChainNow(w)
                 /\ DeleteTimes(g, facts, arena, v, by, N + 1).oops # NoOops

\* C5 witness: the third delete of an instruction failed after two deletes
\* of it had returned, the chain having held two entries of it and an entry
\* of the other instruction, which is still there.
C5_Witness ==
    /\ last.op = "delete" /\ oops # NoOops
    /\ regCalls[last.v] = 3 /\ unregOK[last.v] = 2
    /\ Len(ChainNow(last.v)) = 1
    /\ Cardinality({e \in 1..Len(arena) : arena[e].user = last.by}) = 2

\* C6: a call of MVM_spesh_usages_delete for an instruction of which the
\* chain holds no entry raises the fatal error, in every reachable state.
C6_DeleteWithoutEntryIsFatal ==
    /\ last.op = "delete" /\ CountUser(arena, last.pre.chain, last.by) = 0 =>
          /\ ~Running
          /\ oops = delete_oops(g, last.by)
    /\ Running =>
          \A v \in Values, by \in Ins :
             CountUser(arena, ChainNow(v), by) = 0 =>
                usages_delete(g, facts, arena, v, by).oops = delete_oops(g, by)

\* C6 witness: a delete failed on a chain that holds only an entry of the
\* other instruction, after the entry of the instruction had been removed.
C6_Witness ==
    /\ last.op = "delete" /\ ~Running
    /\ Len(last.pre.chain) = 1
    /\ regCalls[last.v] = 2 /\ unregOK[last.v] = 1
    /\ \E e \in 1..Len(arena) : arena[e].user = last.by

\* C7: no step clears the deopt_required or the handler_required flag of a
\* value.
C7_FlagsMonotonic ==
    [][\A v \in Values :
          /\ DeoptNow(v) # 0 => facts'[v].usage.deopt_required # 0
          /\ HandlerNow(v) # 0 => facts'[v].usage.handler_required # 0]_vars

\* C7 witness: a delete returned for a value whose two flags were set before
\* the call and are set after it.
C7_Witness ==
    /\ last.op = "delete" /\ Running
    /\ last.pre.deopt = 1 /\ last.pre.handler = 1
    /\ DeoptNow(last.v) = 1 /\ HandlerNow(last.v) = 1

\* C8: a call of MVM_spesh_usages_add_for_deopt leaves the value used by
\* deopt and used, whatever its chain, and changes nothing when the flag
\* was set already; likewise MVM_spesh_usages_add_for_handler.
C8_MarkSetsFlagIdempotently ==
    [][\A v \in Values :
          /\ AddForDeopt(v) =>
                /\ usages_is_used_by_deopt(facts', v) = 1
                /\ usages_is_used(facts', v) = 1
                /\ DeoptNow(v) = 1 =>
                      UNCHANGED <<g, facts, arena, oops, regCalls, unregOK>>
          /\ AddForHandler(v) =>
                /\ usages_is_used_by_handler(facts', v) = 1
                /\ usages_is_used(facts', v) = 1
                /\ HandlerNow(v) = 1 =>
                      UNCHANGED <<g, facts, arena, oops, regCalls, unregOK>>]_vars

\* C8 witness: a second MVM_spesh_usages_add_for_deopt for a value with an
\* empty chain and no handler requirement, which is used by deopt and used.
C8_Witness ==
    /\ last.op = "add_for_deopt" /\ last.pre.deopt = 1
    /\ last.pre.chain = <<>> /\ last.pre.handler = 0
    /\ usages_count(facts, arena, last.v) = 0
    /\ usages_is_used_by_deopt(facts, last.v) = 1
    /\ usages_is_used(facts, last.v) = 1

\* C9: a delete that directly follows the add of the same value and
\* instruction returns and leaves the chain of the value with the entries
\* it had before the add, in the same order; if that chain is empty and
\* both flags are clear the value is not used.
C9_AddThenDeleteRestoresChain ==
    last.op = "delete" /\ last.after_add =>
        /\ oops = NoOops
        /\ ChainNow(last.v) = last.base
        /\ usages_count(facts, arena, last.v) = Len(last.base)
        /\ (last.base = <<>> /\ DeoptNow(last.v) = 0 /\ HandlerNow(last.v) = 0)
              => usages_is_used(facts, last.v) = 0

\* C9 witness: such a delete on a chain that already held an entry of the
\* same instruction before the add.
C9_Witness ==
    /\ last.op = "delete" /\ last.after_add /\ Running
    /\ Len(last.base) = 1
    /\ arena[last.base[1]].user = last.by

\* The blocks met from block bb on along linear_next, and the instructions
\* met from instruction ins on along next.
RECURSIVE BlocksFrom(_, _)
BlocksFrom(gr, bb) ==
    IF bb = NULL THEN {} ELSE {bb} \cup BlocksFrom(gr, gr.bbs[bb].linear_next)

RECURSIVE InsFrom(_, _)
InsFrom(gr, ins) ==
    IF ins = NULL THEN {} ELSE {ins} \cup InsFrom(gr, gr.ins[ins].next)

\* The instructions of the stream: those of the blocks linked from the entry.
StreamIns(gr) ==
    UNION {InsFrom(gr, gr.bbs[bb].first_ins) : bb \in BlocksFrom(gr, gr.entry)}

\* The slots of an instruction that read a register: for a PHI all slots
\* but slot 0, otherwise the slots whose descriptor says read_reg.
ReadSlots(gr, ins) ==
    {i \in 0..(gr.ins[ins].info.num_operands - 1) :
        IF gr.ins[ins].info.opcode = MVM_SSA_PHI
        THEN i >= 1
        ELSE gr.ins[ins].info.operands[i + 1] = MVM_operand_read_reg}

\* The number of read operand occurrences of value v in instruction ins of
\* the stream.
ReadOccurrences(gr, ins, v) ==
    IF ins \in StreamIns(gr)
    THEN Cardinality({i \in ReadSlots(gr, ins) : gr.ins[ins].operands[i + 1] = v})
    ELSE 0

\* The latest call was the checker and it returned.
CheckPassed == last.op = "check" /\ Running

\* C10 as stated: when the checker returns, every chain holds, for every
\* instruction, as many entries as the instruction has read occurrences of
\* the value in the stream.
C10_Original ==
    CheckPassed =>
        \A v \in Values, by \in Ins :
           CountUser(arena, ChainNow(v), by) = ReadOccurrences(g, by, v)

\* C10 amended: when the checker returns, the chain of every value holds at
\* least one entry of every instruction of the stream that reads the value.
C10_CheckPassImpliesReaderPresent ==
    CheckPassed =>
        \A v \in Values, by \in Ins :
           ReadOccurrences(g, by, v) > 0 => CountUser(arena, ChainNow(v), by) >= 1

\* C10 witness: the checker returned on a graph in which an instruction
\* reads a value in two slots and the chain holds two entries of it.
C10_Witness ==
    /\ CheckPassed
    /\ \E v \in Values, by \in Ins :
          /\ ReadOccurrences(g, by, v) = 2
          /\ CountUser(arena, ChainNow(v), by) = 2

\* The block of the stream that holds instruction ins.
BlockOf(gr, ins) ==
    CHOOSE bb \in BlocksFrom(gr, gr.entry) : ins \in InsFrom(gr, gr.bbs[bb].first_ins)

\* The name the checker prints for an instruction.
PrintedName(gr, ins) ==
    IF gr.ins[ins].info.opcode = MVM_SSA_PHI THEN "PHI" ELSE gr.ins[ins].info.name

\* The diagnostic of a missing reader ins of value v.
ReaderMissing(gr, ins, v) ==
    [fmt |-> "Malformed DU chain: reader %s of %d(%d) in BB %d missing",
     name |-> PrintedName(gr, ins), orig |-> v.orig, i |-> v.i,
     bb |-> gr.bbs[BlockOf(gr, ins)].idx]

\* The facts table and the arena before the latest call, when that call was
\* a delete that returned: the chain of its value is relinked as recorded.
FactsBeforeDelete ==
    [facts EXCEPT ![last.v].usage.users =
        IF last.pre.chain = <<>> THEN NULL ELSE last.pre.chain[1]]

ArenaBeforeDelete ==
    [e \in 1..Len(arena) |->
        IF \E k \in 1..Len(last.pre.chain) : last.pre.chain[k] = e
        THEN LET k == CHOOSE k \in 1..Len(last.pre.chain) : last.pre.chain[k] = e
             IN  [user |-> arena[e].user,
                  next |-> IF k < Len(last.pre.chain)
                           THEN last.pre.chain[k + 1] ELSE NULL]
        ELSE arena[e]]

\* The latest call was a delete that returned, and the checker would have
\* passed before it.
RemovedFromPassingGraph ==
    /\ last.op = "delete" /\ Running
    /\ usages_check(g, FactsBeforeDelete, ArenaBeforeDelete) = NoOops

\* C11 as stated: after an entry of an instruction that reads the value is
\* removed from a graph on which the checker passes, the checker raises the
\* diagnostic of the missing reader for that instruction and value.
C11_Original ==
    RemovedFromPassingGraph /\ ReadOccurrences(g, last.by, last.v) > 0 =>
        usages_check(g, facts, arena) = ReaderMissing(g, last.by, last.v)

\* C11 amended: after an entry is removed from a graph on which the checker
\* passes, the checker raises the diagnostic of the missing reader for the
\* instruction and value of the removed entry when the chain holds no other
\* entry of the instruction and the instruction reads the value in the
\* stream, and passes otherwise.
C11_RemovalDetectedIffLastEntryOfReader ==
    RemovedFromPassingGraph =>
        usages_check(g, facts, arena) =
            IF /\ CountUser(arena, ChainNow(last.v), last.by) = 0
               /\ ReadOccurrences(g, last.by, last.v) > 0
            THEN ReaderMissing(g, last.by, last.v)
            ELSE NoOops

\* C11 witness: the only entry of an instruction that reads the value in
\* two slots was removed from a passing graph, and the checker now raises
\* the diagnostic for that instruction and value.
C11_Witness ==
    /\ RemovedFromPassingGraph
    /\ ReadOccurrences(g, last.by, last.v) = 2
    /\ usages_check(g, facts, arena) = ReaderMissing(g, last.by, last.v)

\* The slots of an instruction that write a register: for a PHI slot 0,
\* otherwise the slots whose descriptor says write_reg.
WriteSlots(gr, ins) ==
    {i \in 0..(gr.ins[ins].info.num_operands - 1) :
        IF gr.ins[ins].info.opcode = MVM_SSA_PHI
        THEN i = 0
        ELSE gr.ins[ins].info.operands[i + 1] = MVM_operand_write_reg}

\* Every read occurrence of the stream has an entry of its instruction in
\* the chain of the value it names.
ReadersRecorded(gr, f, ar) ==
    \A ins \in StreamIns(gr) : \A i \in ReadSlots(gr, ins) :
        CountUser(ar, ChainOf(f, ar, gr.ins[ins].operands[i + 1]), ins) >= 1

\* Every write occurrence of the stream names a value whose writer is the
\* instruction.
WritersRecorded(gr, f) ==
    \A ins \in StreamIns(gr) : \A i \in WriteSlots(gr, ins) :
        f[gr.ins[ins].operands[i + 1]].writer = ins

\* C12: in every state in which every read occurrence of the stream has a
\* matching chain entry and every write occurrence has its instruction as
\* the writer, the checker raises no diagnostic, and a call of it returns.
C12_NoFalseAlarm ==
    ReadersRecorded(g, facts, arena) /\ WritersRecorded(g, facts) =>
        /\ usages_check(g, facts, arena) = NoOops
        /\ last.op = "check" => Running

\* C12 witness: the checker returned on the two-block graph with the PHI,
\* whose reads and writes are all recorded, the entry of the PHI not being
\* the head of its chain.
C12_Witness ==
    /\ last.op = "check" /\ Running
    /\ ReadersRecorded(g, facts, arena) /\ WritersRecorded(g, facts)
    /\ \E ins \in StreamIns(g) :
          /\ g.ins[ins].info.opcode = MVM_SSA_PHI
          /\ \E v \in Values :
                /\ ReadOccurrences(g, ins, v) > 0
                /\ arena[facts[v].usage.users].user # ins

\* The diagnostic of an incorrect writer ins of value v.
WriterIncorrect(gr, ins, v) ==
    [fmt |-> "Malformed DU chain: writer %s of %d(%d) in BB %d is incorrect",
     name |-> PrintedName(gr, ins), orig |-> v.orig, i |-> v.i,
     bb |-> gr.bbs[BlockOf(gr, ins)].idx]

\* C13: the checker raises no diagnostic only in states in which every
\* write occurrence of the blocks linked from the entry names a value whose
\* recorded writer is the instruction; with any other writer, NULL
\* included, it raises a diagnostic, and a call of it does not return.
C13_CheckPassImpliesWritersRecorded ==
    /\ usages_check(g, facts, arena) = NoOops => WritersRecorded(g, facts)
    /\ last.op = "check" /\ Running => WritersRecorded(g, facts)
    /\ last.op = "check" /\ ~WritersRecorded(g, facts) => ~Running

\* C13 witness: the checker raised the diagnostic of the incorrect writer
\* for a write of a value whose writer is NULL, in the second instruction
\* of the block, after the read of the first instruction was found.
C13_Witness ==
    /\ last.op = "check"
    /\ \E ins \in StreamIns(g) : \E i \in WriteSlots(g, ins) :
          LET v == g.ins[ins].operands[i + 1]
          IN  /\ facts[v].writer = NULL
              /\ oops = WriterIncorrect(g, ins, v)
              /\ g.bbs[g.entry].first_ins # ins

\* The latest call was a delete that raised the fatal error.
DeleteFailed == last.op = "delete" /\ ~Running

\* The calls of delete, other than the latest, that fail in the current
\* state.
OtherFailingDeletes ==
    {c \in Values \X Ins :
        /\ c # <<last.v, last.by>>
        /\ CountUser(arena, ChainNow(c[1]), c[2]) = 0}

CheckFailed == last.op = "check" /\ ~Running

\* C15: the diagnostic the checker raises is the one of a missing reader
\* for a read slot of an instruction of the stream whose value has no entry
\* of the instruction, or the one of an incorrect writer for a write slot
\* whose value has another writer; it holds the printed name of the
\* instruction, the register and version of the operand of that slot and
\* the index of the block of the instruction.
C15_CheckDiagnosticNamesSlot ==
    CheckFailed =>
        \E ins \in StreamIns(g) :
           \/ \E i \in ReadSlots(g, ins) :
                 LET v == g.ins[ins].operands[i + 1]
                 IN  /\ CountUser(arena, ChainNow(v), ins) = 0
                     /\ oops = ReaderMissing(g, ins, v)
           \/ \E i \in WriteSlots(g, ins) :
                 LET v == g.ins[ins].operands[i + 1]
                 IN  /\ facts[v].writer # ins
                     /\ oops = WriterIncorrect(g, ins, v)

\* C15 witness: the checker raised the diagnostic of an incorrect writer in
\* the block of index 1 for a value whose recorded writer is the
\* instruction of the block of index 0.
C15_Witness ==
    /\ CheckFailed
    /\ oops.fmt = "Malformed DU chain: writer %s of %d(%d) in BB %d is incorrect"
    /\ oops.bb = 1
    /\ facts[Operand(oops.orig, oops.i)].writer # NULL

\* C16: a step is taken only while no fatal error has been raised, and the
\* fatal error is raised only by a call of delete or of the checker: after
\* it no call of add, delete, a mark, a query or the checker takes place.
C16_FatalIsTerminal ==
    [][/\ oops = NoOops
       /\ oops' # NoOops => last'.op \in {"delete", "check"}]_vars

\* C16 witness: a delete raised the fatal error while the arena had entries
\* left to hand out and the flags of the value were clear, so that adds,
\* marks and queries were possible before it.
C16_Witness ==
    /\ DeleteFailed
    /\ Len(arena) < MaxEntries
    /\ DeoptNow(last.v) = 0 /\ HandlerNow(last.v) = 0

\* The names of the five queries.
QueryOps ==
    {"is_used", "is_used_by_deopt", "is_used_by_handler", "used_once", "count"}

\* C17: a call of one of the five queries or of the checker leaves the
\* graph, the facts (writer, chain head, flags) and every chain entry as
\* they were, and a call of a query raises no fatal error.
C17_QueriesAndCheckArePure ==
    [][/\ last'.op \in QueryOps \cup {"check"} =>
             UNCHANGED <<g, facts, arena>>
       /\ last'.op \in QueryOps => oops' = NoOops]_vars

\* C17 witness: used_once returned true for a value with one entry after an
\* entry of it had been removed, and the entry is still its chain.
C17_Witness ==
    /\ last.op = "used_once" /\ last.ret = 1
    /\ unregOK[last.v] = 1
    /\ ChainNow(last.v) = last.pre.chain
    /\ Len(ChainNow(last.v)) = 1

\* C18: a call of delete, of count or of the checker that has entered its
\* loop returns or raises the fatal error after finitely many iterations.
C18_CallsEnd == (run # Idle) ~> (run = Idle)

\* C18 witness: a delete is in its loop and has passed over an entry of
\* another instruction.
C18_Witness == run # Idle /\ run.op = "delete" /\ run.prev # NULL

\* The class of slot i of an instruction, read, write or none: a PHI by the position
\* of the slot, any other instruction by the descriptor of the operand.
SlotClass(gr, ins, i) ==
    IF gr.ins[ins].info.opcode = MVM_SSA_PHI
    THEN IF i = 0 THEN "write" ELSE "read"
    ELSE CASE gr.ins[ins].info.operands[i + 1] = MVM_operand_read_reg -> "read"
           [] gr.ins[ins].info.operands[i + 1] = MVM_operand_write_reg -> "write"
           [] OTHER -> "none"

\* C19: for every operand slot of every instruction of the stream the
\* checker tests the slot as a read exactly when it is slot 1..N of a PHI
\* or a slot of another instruction whose descriptor is a register read,
\* and as a write exactly when it is slot 0 of a PHI or a slot of another
\* instruction whose descriptor is a register write; a read slot raises the
\* missing reader exactly when the chain of its value has no entry of the
\* instruction, a write slot raises the incorrect writer exactly when the
\* writer of its value is not the instruction, any other slot raises
\* nothing.
C19_PhiSlotsByPosition ==
    \A ins \in StreamIns(g) :
       \A i \in 0..(g.ins[ins].info.num_operands - 1) :
          LET c == SlotClass(g, ins, i)
              v == g.ins[ins].operands[i + 1]
              d == check_slot(g, facts, arena, BlockOf(g, ins), ins, i)
          IN  /\ check_is_read(g.ins[ins], i) <=> c = "read"
              /\ check_is_write(g.ins[ins], i) <=> c = "write"
              /\ c = "read" =>
                    d = IF CountUser(arena, ChainNow(v), ins) = 0
                        THEN ReaderMissing(g, ins, v) ELSE NoOops
              /\ c = "write" =>
                    d = IF facts[v].writer # ins
                        THEN WriterIncorrect(g, ins, v) ELSE NoOops
              /\ c = "none" => d = NoOops

\* C19 witness: the checker raised the missing reader for a slot of a PHI
\* whose operand descriptor is not a register read, after it had accepted
\* slot 0 of the PHI, whose descriptor is not a register write.
C19_Witness ==
    /\ CheckFailed
    /\ \E ins \in StreamIns(g) : \E i \in 1..(g.ins[ins].info.num_operands - 1) :
          /\ g.ins[ins].info.opcode = MVM_SSA_PHI
          /\ g.ins[ins].info.operands[i + 1] # MVM_operand_read_reg
          /\ g.ins[ins].info.operands[1] # MVM_operand_write_reg
          /\ facts[g.ins[ins].operands[1]].writer = ins
          /\ oops = ReaderMissing(g, ins, g.ins[ins].operands[i + 1])

\* The position in chain ch of the first entry whose user is by.
FirstMatch(ar, ch, by) ==
    CHOOSE k \in 1..Len(ch) :
        /\ ar[ch[k]].user = by
        /\ \A j \in 1..(k - 1) : ar[ch[j]].user # by

\* C20: a delete that returns has unlinked the entry of the instruction
\* nearest to the head: the chain is the chain before the call without that
\* one position, the other entries in the same order, and among the entries
\* of the instruction in the chain before the call the unlinked one is the
\* one allocated last.
C20_DeleteUnlinksFirstMatch ==
    last.op = "delete" /\ Running =>
        LET pre == last.pre.chain
            k == FirstMatch(arena, pre, last.by)
        IN  /\ ChainNow(last.v) =
                  SubSeq(pre, 1, k - 1) \o SubSeq(pre, k + 1, Len(pre))
            /\ \A j \in 1..Len(pre) :
                  arena[pre[j]].user = last.by => pre[j] <= pre[k]

\* C20 witness: a delete returned on a chain of three entries whose head
\* was of another instruction and whose second and third entries were of
\* the instruction of the call.
C20_Witness ==
    /\ last.op = "delete" /\ Running
    /\ Len(last.pre.chain) = 3
    /\ arena[last.pre.chain[1]].user # last.by
    /\ arena[last.pre.chain[2]].user = last.by
    /\ arena[last.pre.chain[3]].user = last.by
    /\ ChainNow(last.v) = <<last.pre.chain[1], last.pre.chain[3]>>

\* C21: after a call of add the head entry of the chain of the value has
\* the instruction of the call as its user and the entries behind it are
\* the chain as it was before the call; every chain lists its entries from
\* the one allocated last to the one allocated first.
C21_AddPrepends ==
    /\ last.op = "add" =>
          LET ch == ChainNow(last.v)
          IN  /\ ch # <<>>
              /\ facts[last.v].usage.users = Head(ch)
              /\ arena[Head(ch)].user = last.by
              /\ Tail(ch) = last.pre.chain
    /\ \A v \in Values :
          LET ch == ChainNow(v)
          IN  \A k \in 1..(Len(ch) - 1) : ch[k] > ch[k + 1]

\* C21 witness: an add to a chain of two entries whose head was of another
\* instruction.
C21_Witness ==
    /\ last.op = "add"
    /\ Len(last.pre.chain) = 2
    /\ arena[last.pre.chain[1]].user # last.by
    /\ arena[Head(ChainNow(last.v))].user = last.by

\* The permutations of 1..n.
Perms(n) ==
    {p \in [1..n -> 1..n] : \A a, b \in 1..n : p[a] = p[b] => a = b}

\* The state after the adds of us[k], ..., us[1] to value v, in that order.
RECURSIVE AddAll(_, _, _, _)
AddAll(st, v, us, k) ==
    IF k = 0 THEN st
    ELSE LET r == usages_add(st.facts, st.arena, v, us[k])
         IN  AddAll([facts |-> r.facts, arena |-> r.arena], v, us, k - 1)

\* The orders in which the users u of a chain can be listed.
Orders(u) == {[k \in 1..Len(u) |-> u[p[k]]] : p \in Perms(Len(u))}

\* The state in which the chain of value v lists the users u and the chain
\* of the other value lists its users in their current order: the state
\* reached from the empty chains by the adds that build these chains.
Reordered(v, u) ==
    LET us == [w \in Values |->
                 IF w = v THEN u ELSE UsersOf(arena, ChainNow(w))]
        empty == [facts |-> [w \in Values |->
                               [facts[w] EXCEPT !.usage.users = NULL]],
                  arena |-> <<>>]
        one == AddAll(empty, V1, us[V1], Len(us[V1]))
    IN  AddAll(one, V2, us[V2], Len(us[V2]))

\* The facts after value v has been marked for deopt if d = 1 and for
\* handlers if h = 1.
Marked(f, v, d, h) ==
    LET fd == IF d = 1 THEN usages_add_for_deopt(f, v) ELSE f
    IN  IF h = 1 THEN usages_add_for_handler(fd, v) ELSE fd

\* The results of the five queries for value v.
Queries(f, ar, v) ==
    <<usages_is_used(f, v), usages_is_used_by_deopt(f, v),
      usages_is_used_by_handler(f, v), usages_used_once(f, ar, v),
      usages_count(f, ar, v)>>

\* How many entries each instruction has in the chain of each value.
UserCounts(f, ar) ==
    [w \in Values |-> [b \in Ins |-> CountUser(ar, ChainOf(f, ar, w), b)]]

\* What the calls of this file show of a state: the results of the five
\* queries for every value under each setting of its flags, the outcome
\* (return or the fatal error with its diagnostic) of every delete with the
\* number of entries of every instruction in every chain after it, and the
\* outcome of the checker.
Observed(f, ar) ==
    [queries |-> [w \in Values |-> [dh \in {0, 1} \X {0, 1} |->
                    Queries(Marked(f, w, dh[1], dh[2]), ar, w)]],
     deletes |-> [c \in Values \X Ins |->
                    LET r == usages_delete(g, f, ar, c[1], c[2])
                    IN  [oops |-> r.oops,
                         counts |-> UserCounts(r.facts, r.arena)]],
     check |-> usages_check(g, f, ar)]

\* C22: the current state and every state that holds the same users in the
\* chain of a value in another order, with the same flags, give the same
\* results of the five queries, the same outcome of every delete, the same
\* number of entries of every instruction in every chain after the delete,
\* and the same outcome of the checker.
C22_OrderIndependence ==
    LET now == Observed(facts, arena)
    IN  \A v \in Values :
           \A u \in Orders(UsersOf(arena, ChainNow(v))) :
              LET o == Reordered(v, u)
              IN  /\ UserCounts(o.facts, o.arena) = UserCounts(facts, arena)
                  /\ Observed(o.facts, o.arena) = now

\* C22 witness: an add made a chain of three entries of two instructions,
\* which has an order of its users other than the current one.
C22_Witness ==
    /\ last.op = "add"
    /\ Len(ChainNow(last.v)) = 3
    /\ Cardinality(Orders(UsersOf(arena, ChainNow(last.v)))) > 1

\* C23: a call of a form that takes an operand ends in the state, and with
\* the outcome, in which the form that takes the facts ends when it is
\* called in the same state with the facts at the register and version of
\* the operand.
C23_ByRegIsByFacts ==
    [][LET v == Operand(last'.v.orig, last'.v.i)
       IN  /\ last'.op = "add_by_reg" =>
                LET r == usages_add(facts, arena, v, last'.by)
                IN  /\ facts' = r.facts /\ arena' = r.arena
                    /\ oops' = r.oops
           /\ last'.op = "delete_by_reg" =>
                LET r == usages_delete(g, facts, arena, v, last'.by)
                IN  /\ facts' = r.facts /\ arena' = r.arena
                    /\ oops' = r.oops
           /\ last'.op = "add_for_deopt_by_reg" =>
                /\ facts' = usages_add_for_deopt(facts, v)
                /\ arena' = arena /\ oops' = NoOops
           /\ last'.op = "add_for_handler_by_reg" =>
                /\ facts' = usages_add_for_handler(facts, v)
                /\ arena' = arena /\ oops' = NoOops]_vars

\* C23 witness: a delete by operand raised the fatal error for a value
\* that had been marked for handlers by operand and whose chain holds an
\* entry added by operand.
C23_Witness ==
    /\ last.op = "delete_by_reg" /\ ~Running
    /\ HandlerNow(last.v) = 1 /\ DeoptNow(last.v) = 0
    /\ Len(ChainNow(last.v)) = 1

\* The blocks from bb on and the instructions from ins on, in order.
RECURSIVE BlockSeq(_, _)
BlockSeq(gr, bb) ==
    IF bb = NULL THEN <<>>
    ELSE <<bb>> \o BlockSeq(gr, gr.bbs[bb].linear_next)

RECURSIVE InsSeq(_, _)
InsSeq(gr, ins) ==
    IF ins = NULL THEN <<>> ELSE <<ins>> \o InsSeq(gr, gr.ins[ins].next)

\* The position of x in a sequence, or one past its end.
Pos(seq, x) ==
    IF \E k \in 1..Len(seq) : seq[k] = x
    THEN CHOOSE k \in 1..Len(seq) : seq[k] = x
    ELSE Len(seq) + 1

\* The operand slots of the stream, as pairs of instruction and slot.
StreamSlots(gr) ==
    {<<ins, i>> : ins \in StreamIns(gr), i \in 0..2} \cap
    {s \in Ins \X (0..2) : s[2] < gr.ins[s[1]].info.num_operands}

\* Does slot s come before the place (bb, ins, i) in the order of the
\* blocks from the entry, the instructions of a block and the slots of an
\* instruction; bb = NULL is the end of the stream and ins = NULL the end
\* of block bb.
SlotBefore(gr, s, bb, ins, i) ==
    LET bs == BlockSeq(gr, gr.entry)
        sb == BlockOf(gr, s[1])
    IN  \/ Pos(bs, sb) < Pos(bs, bb)
        \/ /\ sb = bb
           /\ LET is == InsSeq(gr, gr.bbs[bb].first_ins)
              IN  \/ ins = NULL
                  \/ Pos(is, s[1]) < Pos(is, ins)
                  \/ s[1] = ins /\ s[2] < i

\* Is slot s a violation: a read slot whose value has no entry of the
\* instruction, or a write slot whose value has another writer.
SlotViolates(gr, f, ar, s) ==
    LET v == gr.ins[s[1]].operands[s[2] + 1]
        c == SlotClass(gr, s[1], s[2])
    IN  \/ c = "read" /\ CountUser(ar, ChainOf(f, ar, v), s[1]) = 0
        \/ c = "write" /\ f[v].writer # s[1]

\* The diagnostic of the violation at slot s.
SlotDiagnostic(gr, s) ==
    LET v == gr.ins[s[1]].operands[s[2] + 1]
    IN  IF SlotClass(gr, s[1], s[2]) = "read"
        THEN ReaderMissing(gr, s[1], v) ELSE WriterIncorrect(gr, s[1], v)

\* The diagnostic of the first violation in traversal order, or NoOops.
EarliestViolation(gr, f, ar) ==
    LET bad == {s \in StreamSlots(gr) : SlotViolates(gr, f, ar, s)}
    IN  IF bad = {} THEN NoOops
        ELSE SlotDiagnostic(gr,
               CHOOSE s \in bad : \A t \in bad \ {s} :
                  SlotBefore(gr, s, BlockOf(gr, t[1]), t[1], t[2]))

\* The place the checker in progress has come to.
CheckCursor ==
    IF run.at = "bb"
    THEN [bb |-> run.cur_bb,
          ins |-> IF run.cur_bb = NULL THEN NULL
                  ELSE g.bbs[run.cur_bb].first_ins,
          i |-> 0]
    ELSE [bb |-> run.cur_bb, ins |-> run.cur_ins,
          i |-> IF run.at = "ins" THEN 0 ELSE run.i]

\* C24: while the checker runs, no slot that comes before the place it has
\* come to, in the order of blocks from the entry, instructions of a block
\* and slots of an instruction, is a violation, and no diagnostic is
\* raised; when it has ended, the diagnostic is the one of the first
\* violation in that order, or none if there is no violation, and the
\* checker is no longer in progress.
C24_CheckStopsAtEarliest ==
    /\ run # Idle /\ run.op = "check" =>
          /\ oops = NoOops
          /\ \A s \in StreamSlots(g) :
                SlotBefore(g, s, CheckCursor.bb, CheckCursor.ins, CheckCursor.i)
                   => ~SlotViolates(g, facts, arena, s)
    /\ last.op = "check" =>
          oops = EarliestViolation(g, facts, arena)
    /\ oops # NoOops => run = Idle

\* C24 witness: the checker raised the incorrect writer of the second
\* block although a slot after it is a violation with another diagnostic.
C24_Witness ==
    /\ CheckFailed
    /\ oops.bb = 1
    /\ \E s \in StreamSlots(g) :
          /\ SlotViolates(g, facts, arena, s)
          /\ SlotDiagnostic(g, s) # oops

\* The names of the calls that change the state.
MutatorOps == {"add", "delete", "add_for_deopt", "add_for_handler"}

\* C25: a call of add or of delete leaves the flags of every value and the
\* chain of every value but its own as they were; a call of add_for_deopt
\* changes nothing but the deopt flag of its value and a call of
\* add_for_handler nothing but the handler flag of its value; no call
\* changes the writer of a value or the user of an entry.
C25_MutatorFrame ==
    [][/\ \A w \in Values : facts'[w].writer = facts[w].writer
       /\ \A e \in 1..Len(arena) : arena'[e].user = arena[e].user
       /\ last'.op \in {"add", "delete"} =>
             \A w \in Values :
                /\ facts'[w].usage.deopt_required
                      = facts[w].usage.deopt_required
                /\ facts'[w].usage.handler_required
                      = facts[w].usage.handler_required
                /\ w # last'.v =>
                      /\ facts'[w] = facts[w]
                      /\ ChainOf(facts', arena', w) = ChainOf(facts, arena, w)
       /\ last'.op = "add_for_deopt" =>
             /\ arena' = arena
             /\ facts' = [facts EXCEPT ![last'.v].usage.deopt_required =
                                          facts'[last'.v].usage.deopt_required]
       /\ last'.op = "add_for_handler" =>
             /\ arena' = arena
             /\ facts' = [facts EXCEPT ![last'.v].usage.handler_required =
                                          facts'[last'.v].usage.handler_required]
       /\ last'.op \notin MutatorOps => UNCHANGED <<facts, arena>>]_vars

\* C25 witness: a value was marked for handlers while its deopt flag was
\* clear and its chain held an entry, and the other value had an entry and
\* its deopt flag set.
C25_Witness ==
    /\ last.op = "add_for_handler" /\ last.pre.handler = 0
    /\ DeoptNow(last.v) = 0 /\ HandlerNow(last.v) = 1
    /\ Len(ChainNow(last.v)) = 1
    /\ \E w \in Values \ {last.v} :
          Len(ChainNow(w)) = 1 /\ DeoptNow(w) = 1 /\ HandlerNow(w) = 0

\* C26: a call of delete that raises the fatal error leaves the graph, the
\* facts of every value (writer, chain head, flags) and every entry as
\* they were before the call.
C26_FailedDeleteChangesNothing ==
    [][last'.op = "delete" /\ oops' # NoOops =>
          UNCHANGED <<g, facts, arena>>]_vars

\* C26 witness: a delete raised the fatal error for a value whose chain
\* holds an entry of the other instruction and whose flags are set, the
\* other value having an entry too.
C26_Witness ==
    /\ DeleteFailed
    /\ Len(ChainNow(last.v)) = 1
    /\ arena[ChainNow(last.v)[1]].user # last.by
    /\ DeoptNow(last.v) = 1 /\ HandlerNow(last.v) = 1
    /\ \E w \in Values \ {last.v} : Len(ChainNow(w)) = 1

\* The entries met when following next from cur for at most fuel steps,
\* and whether NULL is met within fuel steps.
RECURSIVE Walk(_, _, _)
Walk(ar, cur, fuel) ==
    IF cur = NULL \/ fuel = 0 THEN <<>>
    ELSE <<cur>> \o Walk(ar, ar[cur].next, fuel - 1)

RECURSIVE EndsWithin(_, _, _)
EndsWithin(ar, cur, fuel) ==
    IF cur = NULL THEN TRUE
    ELSE IF fuel = 0 THEN FALSE
    ELSE EndsWithin(ar, ar[cur].next, fuel - 1)

\* The entries that can be reached from the chain head of value v, and
\* from the head of any value.
Reachable(f, ar, v) == EntrySet(Walk(ar, f[v].usage.users, Len(ar) + 1))

Linked(f, ar) == UNION {Reachable(f, ar, v) : v \in Values}

\* The chain of every value ends at NULL within as many steps as there
\* are entries, no entry is met twice in it, and no entry is in the chains
\* of two values.
ChainsOwnTheirEntries ==
    /\ \A v \in Values :
          /\ EndsWithin(arena, facts[v].usage.users, Len(arena))
          /\ LET w == Walk(arena, facts[v].usage.users, Len(arena) + 1)
             IN  Cardinality(EntrySet(w)) = Len(w)
    /\ \A v1, v2 \in Values :
          v1 # v2 => Reachable(facts, arena, v1)
                        \cap Reachable(facts, arena, v2) = {}

\* C27: in every reachable state every chain is finite and without a
\* cycle, holds no entry twice and shares no entry with the chain of
\* another value; an entry that is in no chain is in no chain after any
\* step.
C27_ChainOwnership ==
    /\ []ChainsOwnTheirEntries
    /\ [][\A e \in 1..Len(arena) :
             e \notin Linked(facts, arena) => e \notin Linked(facts', arena')]_vars

\* C27 witness: a delete unlinked the middle entry of a chain of three;
\* the entry is in no chain and the two others are still in the chain.
C27_Witness ==
    /\ last.op = "delete" /\ Running
    /\ Len(last.pre.chain) = 3
    /\ last.pre.chain[2] \notin Linked(facts, arena)
    /\ ChainNow(last.v) = <<last.pre.chain[1], last.pre.chain[3]>>
    /\ arena[last.pre.chain[3]].user # last.by

\* The instructions of the stream that have a write slot naming value v.
WritersInStream(gr, v) ==
    {ins \in StreamIns(gr) :
        \E i \in WriteSlots(gr, ins) : gr.ins[ins].operands[i + 1] = v}

\* C28: in every state in which the checker raises no diagnostic, and
\* after every call of the checker that returned, no value is named by the
\* write slots of two instructions of the stream, and every instruction
\* that writes a value is its recorded writer.
C28_CheckPassImpliesSingleWriter ==
    usages_check(g, facts, arena) = NoOops \/ CheckPassed =>
        \A v \in Values :
           /\ Cardinality(WritersInStream(g, v)) <= 1
           /\ \A ins \in WritersInStream(g, v) : facts[v].writer = ins

\* C28 witness: the checker returned on a stream of two blocks in which
\* two instructions write, each its own value.
C28_Witness ==
    /\ CheckPassed
    /\ Cardinality(BlocksFrom(g, g.entry)) = 2
    /\ \A v \in Values : Cardinality(WritersInStream(g, v)) = 1

\* No worker is inside a call of add.
AllReturned == \A w \in Workers : workers.at[w].pc = "idle"

\* C29: the chain of a value never holds more entries than there are
\* completed adds to it, and while one worker alone has called add, every
\* completed add has put one entry into the chain: once it has returned,
\* the chain holds as many entries as there are completed adds, and they
\* are the entries of the arena whose add has completed.
C29_SingleWorkerAddsOneEntry ==
    /\ \A v \in Values : Len(ChainNow(v)) <= regCalls[v]
    /\ Cardinality(workers.acted) <= 1 /\ AllReturned =>
          /\ \A v \in Values : Len(ChainNow(v)) = regCalls[v]
          /\ Linked(facts, arena) = 1..Len(arena)

\* C29 witness: both workers have completed an add to the same value and
\* the chain of the value holds one entry: the other add is lost.
C29_Witness ==
    /\ AllReturned
    /\ workers.acted = Workers
    /\ \E v \in Values :
          /\ regCalls[v] = 2
          /\ Len(ChainNow(v)) = 1
          /\ Len(arena) = 2

====
